---------------------------- MODULE Spec2Model ----------------------------
(***************************************************************************)
(* vue-active-view: one directive instance returned by activeView(OPTS).   *)
(*                                                                         *)
(* The closure state (isBound, elements, oldActive, scrollTimeout) and the *)
(* host objects it talks to: the document's scroll listener, the window's  *)
(* table of pending timeouts, the class lists of the link elements, the    *)
(* bounding rectangles of the content elements and window.innerHeight.     *)
(*                                                                         *)
(* Time is discrete.  A timeout set with delay d runs when exactly d units *)
(* have passed (Tick cannot step over a due timeout); a timeout of delay 0 *)
(* still runs in a later step than the handler that set it.                *)
(*                                                                         *)
(* OPTS.advance and OPTS.largeEnough are fractions k/Scale, held as the    *)
(* numerator k; products and quotients with wHeight are compared by cross  *)
(* multiplication, which is exact.  window.innerHeight is positive.        *)
(*                                                                         *)
(* README (src/unnamed/part_000:54): the content element of every id the   *)
(* directive is bound with exists, so getElementById never yields null.    *)
(***************************************************************************)
EXTENDS Integers, Sequences, FiniteSets, TLC

VARIABLES
    OPTS,           \* the options after Object.assign with the defaults
    isBound,        \* closure: the scroll listener has been added
    elements,       \* closure: the object contentId -> {link, content}, as
                    \* the sequence of its properties in enumeration order
    oldActive,      \* closure: the link that was last made active, or Null
    scrollTimeout,  \* closure: id of the last timeout set, 0 = undefined
    timers,         \* window: the pending timeouts
    subscribed,     \* document: updateActive is a listener of "scroll"
    classes,        \* the links whose classList contains OPTS.className
    rect,           \* content element -> its bounding client rectangle
    wHeight,        \* window.innerHeight
    doc,            \* document: id -> content element
    calls,          \* history: the calls between host and directive in the
                    \* last step
    lastOp,         \* history: what the last step was
    sinceScroll,    \* history: time since the last scroll notification
    burst,          \* history: notifications in the current burst
    evals,          \* history: evaluations since the last notification
    byScroll,       \* history: those run by a callback a notification set
    preempted       \* history: a first bind cancelled such a callback

vars == << OPTS, isBound, elements, oldActive, scrollTimeout, timers,
           subscribed, classes, rect, wHeight, doc, calls, lastOp,
           sinceScroll, burst, evals, byScroll, preempted >>

closure == << isBound, elements, oldActive, scrollTimeout >>
history == << sinceScroll, burst, evals, byScroll, preempted >>

---------------------------------------------------------------------------
(* Bounds and input sets *)

MaxDelay == 2       \* OPTS.updateDelay ranges over 0..MaxDelay
MaxBurst == 2       \* the burst counter saturates here
MaxBinds == 2       \* binds that build a registry of the evaluator runs
Scale    == 2       \* advance and largeEnough are k/Scale, k in 0..Scale

Null == "null"

Ids      == {"a", "b", "1", "2"}
PageIds  == {"a", "1"}
UnbindIds == PageIds \cup {"b"}   \* "b" is never bound
LinkSeq  == << "L1", "L2", "L3", "L4" >>
Links    == {"L1", "L2"}
Methods  == {"partial", "screenspace", "complete"}

Rect(t, b) == [top |-> t, bottom |-> b]

\* above, across the top edge, empty at the top, filling, across the bottom
\* edge, starting at the bottom edge, below (for a window 2 high)
EvalRects == { Rect(0 - 2, 0 - 1), Rect(0 - 1, 1), Rect(0, 0), Rect(0, 2),
               Rect(1, 3), Rect(2, 4), Rect(3, 4) }
LifeRects == { Rect(0, 1), Rect(0 - 3, 0 - 1) }
WHeights  == {2, 3}

Min(x, y) == IF x < y THEN x ELSE y

---------------------------------------------------------------------------
(* The elements object: own properties in enumeration order *)

\* An array index key ("1", "2") enumerates before every other key,
\* in ascending numeric order; other keys enumerate in creation order.
IsArrayIndex(key) == key \in {"1", "2"}
IndexValue(key) == IF key = "1" THEN 1 ELSE IF key = "2" THEN 2 ELSE 0

HasProperty(obj, key) == \E i \in 1..Len(obj) : obj[i].key = key

\* elements[key] = val
SetProperty(obj, key, val) ==
    LET entry == [key |-> key, link |-> val.link, content |-> val.content]
    IN  IF HasProperty(obj, key)
        THEN [i \in 1..Len(obj) |-> IF obj[i].key = key THEN entry ELSE obj[i]]
        ELSE IF IsArrayIndex(key)
        THEN LET k == Cardinality({i \in 1..Len(obj) :
                          /\ IsArrayIndex(obj[i].key)
                          /\ IndexValue(obj[i].key) < IndexValue(key)})
             IN  SubSeq(obj, 1, k) \o << entry >> \o SubSeq(obj, k + 1, Len(obj))
        ELSE Append(obj, entry)

\* delete elements[key]
DeleteProperty(obj, key) == SelectSeq(obj, LAMBDA e : e.key # key)

hasBoundElements_two(obj) == Len(obj) > 1
hasBoundElements(obj) == Len(obj) > 0

getElementById(id) == doc[id]

Doc0 == [id \in Ids |->
            IF id = "a" THEN "sec_a" ELSE IF id = "b" THEN "sec_b"
            ELSE IF id = "1" THEN "sec_1" ELSE "sec_2"]
Contents == {Doc0[id] : id \in Ids}

---------------------------------------------------------------------------
(* Host calls *)

Call(api, arg) == << api, arg >>
CallsOf(api) == {i \in 1..Len(calls) : calls[i][1] = api}

clearTimeout(pending, id) == {t \in pending : t.id # id}

NewTimerId ==
    CHOOSE n \in 1..(Cardinality(timers) + 2) :
        /\ n # scrollTimeout
        /\ \A t \in timers : t.id # n
        /\ \A m \in 1..(n - 1) : m = scrollTimeout \/ \E t \in timers : t.id = m

\* window.setTimeout(callback, delay), the timeout that `by` asked for
setTimeout(pending, id, delay, by) ==
    pending \cup {[id |-> id, remaining |-> delay, by |-> by]}

---------------------------------------------------------------------------
(* The detection methods.  Each returns the link it chose (or Null) and    *)
(* the content elements whose rectangle it asked for, in order.            *)

getCommonValues_reresolve(el) ==
    [top |-> rect[doc[el.key]].top, bottom |-> rect[doc[el.key]].bottom]

getCommonValues(el) ==
    [top |-> rect[el.content].top, bottom |-> rect[el.content].bottom]

Found(l, q) == [link |-> l, queried |-> q]

\* isVisible of partiallyVisible: top < wHeight && bottom >= advance,
\* advance = OPTS.advance * wHeight
partialIsVisible_le(vals, wH) ==
    vals.top <= wH /\ vals.bottom * Scale >= OPTS.advance * wH
partialIsVisible(vals, wH) ==
    vals.top < wH /\ vals.bottom * Scale >= OPTS.advance * wH

RECURSIVE partialFrom(_, _, _)
partialFrom(i, wH, q) ==
    IF i > Len(elements) THEN Found(Null, q)
    ELSE LET vals == getCommonValues(elements[i])
             q2   == Append(q, elements[i].content)
         IN  IF partialIsVisible(vals, wH)
             THEN Found(elements[i].link, q2)
             ELSE partialFrom(i + 1, wH, q2)

partiallyVisible(wH) == partialFrom(1, wH, << >>)

\* isVisible of completelyVisible: top >= 0 && bottom <= wHeight
completeIsVisible_gt(vals, wH) == vals.top > 0 /\ vals.bottom <= wH
completeIsVisible(vals, wH) == vals.top >= 0 /\ vals.bottom <= wH

RECURSIVE completeFrom(_, _, _)
completeFrom(i, wH, q) ==
    IF i > Len(elements) THEN Found(Null, q)
    ELSE LET vals == getCommonValues(elements[i])
             q2   == Append(q, elements[i].content)
         IN  IF completeIsVisible(vals, wH)
             THEN Found(elements[i].link, q2)
             ELSE completeFrom(i + 1, wH, q2)

completelyVisible(wH) == completeFrom(1, wH, << >>)

\* screenspace: "if not in view"
notInView(vals, wH) == vals.top > wH \/ vals.bottom < 0

\* screenspace: height - topReduction - bottomReduction, the numerator of
\* share; every share of one scan has the same positive denominator wH
sharePixels_unclipped(vals, wH) == vals.bottom - vals.top
sharePixels(vals, wH) ==
    LET height          == vals.bottom - vals.top
        topReduction    == IF vals.top < 0 THEN 0 - vals.top ELSE 0
        bottomReduction == IF vals.bottom > wH THEN vals.bottom - wH ELSE 0
    IN  height - topReduction - bottomReduction

\* screenspace: share >= OPTS.largeEnough, share = pixels / wH
isLargeEnough_never(pixels, wH) == FALSE
isLargeEnough(pixels, wH) == pixels * Scale >= OPTS.largeEnough * wH

RECURSIVE screenspaceFrom(_, _, _, _, _)
screenspaceFrom(i, wH, biggestShare, newActiveLink, q) ==
    IF i > Len(elements) THEN Found(newActiveLink, q)
    ELSE LET vals  == getCommonValues(elements[i])
             q2    == Append(q, elements[i].content)
             share == sharePixels(vals, wH)
         IN  IF notInView(vals, wH)
             THEN screenspaceFrom(i + 1, wH, biggestShare, newActiveLink, q2)
             ELSE IF share > biggestShare
             THEN IF isLargeEnough(share, wH)
                  THEN Found(elements[i].link, q2)
                  ELSE screenspaceFrom(i + 1, wH, share, elements[i].link, q2)
             ELSE screenspaceFrom(i + 1, wH, biggestShare, newActiveLink, q2)

screenspace(wH) == screenspaceFrom(1, wH, 0, Null, << >>)

\* DETECTION_METHODS[OPTS.method]
UPDATE_METHOD(wH) ==
    CASE OPTS.method = "partial"     -> partiallyVisible(wH)
      [] OPTS.method = "screenspace" -> screenspace(wH)
      [] OPTS.method = "complete"    -> completelyVisible(wH)

---------------------------------------------------------------------------
(* updateActive and its timeout callback *)

\* clearTimeout(scrollTimeout); scrollTimeout = setTimeout(..., updateDelay)
updateActive_noClear(by) ==
    LET id == NewTimerId
    IN  [timers |-> setTimeout(timers, id, OPTS.updateDelay, by),
         scrollTimeout |-> id,
         calls |-> << Call("setTimeout", by) >>]
updateActive_late(by) ==
    LET id == NewTimerId
    IN  [timers |-> setTimeout(clearTimeout(timers, scrollTimeout), id,
                               OPTS.updateDelay + 1, by),
         scrollTimeout |-> id,
         calls |-> << Call("clearTimeout", by), Call("setTimeout", by) >>]
updateActive(by) ==
    LET id == NewTimerId
    IN  [timers |-> setTimeout(clearTimeout(timers, scrollTimeout), id,
                               OPTS.updateDelay, by),
         scrollTimeout |-> id,
         calls |-> << Call("clearTimeout", by), Call("setTimeout", by) >>]

\* the classList calls of the callback for the link the method returned
classListCalls_noRemove(newActiveLink) ==
    IF newActiveLink = Null THEN << >>
    ELSE << Call("classList.add", newActiveLink) >>

classListCalls(newActiveLink) ==
    IF newActiveLink = Null THEN << >>
    ELSE (IF oldActive # Null
          THEN << Call("classList.remove", oldActive) >> ELSE << >>)
         \o << Call("classList.add", newActiveLink) >>

RECURSIVE ApplyClassList(_, _)
ApplyClassList(cls, cs) ==
    IF cs = << >> THEN cls
    ELSE LET c == Head(cs)
         IN  ApplyClassList(IF c[1] = "classList.remove"
                            THEN cls \ {c[2]} ELSE cls \cup {c[2]}, Tail(cs))

QueryCalls(q) == [i \in 1..Len(q) |-> Call("getBoundingClientRect", q[i])]

Timeout_clears(t) ==
    LET found         == UPDATE_METHOD(wHeight)
        newActiveLink == found.link
        cl            == IF newActiveLink = Null /\ oldActive # Null
                         THEN << Call("classList.remove", oldActive) >>
                         ELSE classListCalls(newActiveLink)
    IN  /\ t \in timers /\ t.remaining = 0
        /\ timers' = timers \ {t}
        /\ classes' = ApplyClassList(classes, cl)
        /\ oldActive' = newActiveLink
        /\ calls' = << Call("callback", t.by) >> \o QueryCalls(found.queried) \o cl
        /\ lastOp' = "timeout"
        /\ evals' = Min(evals + 1, 2)
        /\ byScroll' = IF t.by = "scroll" THEN Min(byScroll + 1, 2) ELSE byScroll
        /\ UNCHANGED << OPTS, isBound, elements, scrollTimeout, subscribed,
                        rect, wHeight, doc, sinceScroll, burst, preempted >>

\* the function passed to setTimeout, run for the due timeout t
Timeout(t) ==
    LET found         == UPDATE_METHOD(wHeight)
        newActiveLink == found.link
        cl            == classListCalls(newActiveLink)
    IN  /\ t \in timers /\ t.remaining = 0
        /\ timers' = timers \ {t}
        /\ classes' = ApplyClassList(classes, cl)
        /\ oldActive' = IF newActiveLink # Null THEN newActiveLink ELSE oldActive
        /\ calls' = << Call("callback", t.by) >> \o QueryCalls(found.queried) \o cl
        /\ lastOp' = "timeout"
        /\ evals' = Min(evals + 1, 2)
        /\ byScroll' = IF t.by = "scroll" THEN Min(byScroll + 1, 2) ELSE byScroll
        /\ UNCHANGED << OPTS, isBound, elements, scrollTimeout, subscribed,
                        rect, wHeight, doc, sinceScroll, burst, preempted >>

TimerFire == \E t \in timers : Timeout(t)

\* the document dispatches "scroll" to its listener
Scroll ==
    LET u == updateActive("scroll")
    IN  /\ subscribed
        /\ timers' = u.timers
        /\ scrollTimeout' = u.scrollTimeout
        /\ calls' = u.calls
        /\ lastOp' = "scroll"
        /\ burst' = IF sinceScroll >= 0 /\ sinceScroll < OPTS.updateDelay
                    THEN Min(burst + 1, MaxBurst) ELSE 1
        /\ sinceScroll' = 0
        /\ evals' = 0
        /\ byScroll' = 0
        /\ preempted' = FALSE
        /\ UNCHANGED << OPTS, isBound, elements, oldActive, subscribed,
                        classes, rect, wHeight, doc >>

---------------------------------------------------------------------------
(* The directive *)

\* inserted(el, binding), binding.value = contentId
inserted_noUpdate(el, contentId) ==
    LET content == getElementById(contentId)
    IN  /\ IF ~isBound
           THEN /\ subscribed' = TRUE
                /\ isBound' = TRUE
                /\ calls' = << Call("addEventListener", "scroll"),
                               Call("getElementById", contentId) >>
           ELSE /\ calls' = << Call("getElementById", contentId) >>
                /\ UNCHANGED << subscribed, isBound >>
        /\ UNCHANGED << timers, scrollTimeout, preempted >>
        /\ elements' = SetProperty(elements, contentId,
                                   [link |-> el, content |-> content])
        /\ lastOp' = "inserted"
        /\ UNCHANGED << OPTS, oldActive, classes, rect, wHeight, doc,
                        sinceScroll, burst, evals, byScroll >>
inserted(el, contentId) ==
    LET u       == updateActive("inserted")
        content == getElementById(contentId)
    IN  /\ IF ~isBound
           THEN /\ subscribed' = TRUE
                /\ isBound' = TRUE
                /\ timers' = u.timers
                /\ scrollTimeout' = u.scrollTimeout
                /\ calls' = << Call("addEventListener", "scroll") >> \o u.calls
                               \o << Call("getElementById", contentId) >>
                /\ preempted' = (preempted \/
                                 (burst >= 1 /\ \E t \in timers :
                                     t.id = scrollTimeout /\ t.by = "scroll"))
           ELSE /\ calls' = << Call("getElementById", contentId) >>
                /\ UNCHANGED << subscribed, isBound, timers, scrollTimeout,
                                preempted >>
        /\ elements' = SetProperty(elements, contentId,
                                   [link |-> el, content |-> content])
        /\ lastOp' = "inserted"
        /\ UNCHANGED << OPTS, oldActive, classes, rect, wHeight, doc,
                        sinceScroll, burst, evals, byScroll >>

unbind_unsubscribes(el, contentId) ==
    /\ elements' = DeleteProperty(elements, contentId)
    /\ subscribed' = FALSE
    /\ isBound' = FALSE
    /\ calls' = << Call("unbind", contentId),
                   Call("removeEventListener", "scroll") >>
    /\ lastOp' = "unbind"
    /\ UNCHANGED << OPTS, oldActive, scrollTimeout, timers, classes, rect,
                    wHeight, doc, history >>

\* unbind(el, binding), binding.value = contentId
unbind(el, contentId) ==
    /\ elements' = DeleteProperty(elements, contentId)
    /\ IF ~hasBoundElements(elements')
       THEN /\ subscribed' = FALSE
            /\ isBound' = FALSE
            /\ calls' = << Call("unbind", contentId),
                           Call("removeEventListener", "scroll") >>
       ELSE /\ calls' = << Call("unbind", contentId) >>
            /\ UNCHANGED << subscribed, isBound >>
    /\ lastOp' = "unbind"
    /\ UNCHANGED << OPTS, oldActive, scrollTimeout, timers, classes, rect,
                    wHeight, doc, history >>

---------------------------------------------------------------------------
(* The environment *)

\* one unit of time passes; no timeout is due
Tick ==
    /\ \A t \in timers : t.remaining > 0
    /\ timers # {} \/ (sinceScroll >= 0 /\ sinceScroll <= OPTS.updateDelay)
    /\ timers' = {[t EXCEPT !.remaining = @ - 1] : t \in timers}
    /\ sinceScroll' = IF sinceScroll >= 0 /\ sinceScroll <= OPTS.updateDelay
                      THEN sinceScroll + 1 ELSE sinceScroll
    /\ calls' = << >>
    /\ lastOp' = "tick"
    /\ UNCHANGED << OPTS, closure, subscribed, classes, rect, wHeight, doc,
                    burst, evals, byScroll, preempted >>

\* the page moves under the window: a content element gets another rectangle
Layout(c, r) ==
    /\ rect[c] # r
    /\ rect' = [rect EXCEPT ![c] = r]
    /\ calls' = << >>
    /\ lastOp' = "layout"
    /\ UNCHANGED << OPTS, closure, timers, subscribed, classes, wHeight, doc,
                    history >>

---------------------------------------------------------------------------
(* The directive in a page: bind, unbind, scroll, timeouts *)

ValidOpts(delays, methods, advances, larges) ==
    [className : {"active-view-link"}, updateDelay : delays, method : methods,
     advance : advances, largeEnough : larges]

Fresh ==
    /\ isBound = FALSE
    /\ elements = << >>
    /\ oldActive = Null
    /\ scrollTimeout = 0
    /\ timers = {}
    /\ subscribed = FALSE
    /\ classes = {}
    /\ doc = Doc0
    /\ calls = << >>
    /\ lastOp = "activeView"
    /\ sinceScroll = 0 - 1
    /\ burst = 0
    /\ evals = 0
    /\ byScroll = 0
    /\ preempted = FALSE

Init ==
    /\ OPTS \in ValidOpts(0..MaxDelay, Methods, {1}, {1})
    /\ Fresh
    /\ wHeight = 2
    /\ rect \in [Contents -> LifeRects]
    /\ \A id \in Ids \ PageIds : rect[Doc0[id]] = Rect(0, 1)

Next ==
    \/ \E el \in Links, id \in PageIds : inserted(el, id)
    \/ \E el \in Links, id \in UnbindIds : unbind(el, id)
    \/ Scroll
    \/ TimerFire
    \/ Tick
    \/ \E id \in PageIds, r \in LifeRects : Layout(Doc0[id], r)

Spec == Init /\ [][Next]_vars

---------------------------------------------------------------------------
(* The detection methods on their inputs: a registry that up to MaxBinds   *)
(* binds built (the n-th bind with the n-th link), any rectangles, any     *)
(* options of the method, within the delay of the first bind's timeout.    *)

RECURSIVE RegistryOf(_, _)
RegistryOf(ids, n) ==
    IF n = 0 THEN << >>
    ELSE SetProperty(RegistryOf(ids, n - 1), ids[n],
                     [link |-> LinkSeq[n], content |-> Doc0[ids[n]]])

BindSeqs == UNION {[1..n -> Ids] : n \in 0..MaxBinds}

EvalOpts ==
    {o \in ValidOpts({0}, Methods, 0..Scale, 0..Scale) :
        /\ o.method = "partial" \/ o.advance = 1
        /\ o.method = "screenspace" \/ o.largeEnough = 1}

InitEval ==
    /\ OPTS \in EvalOpts
    /\ wHeight \in WHeights
    /\ \E ids \in BindSeqs : elements = RegistryOf(ids, Len(ids))
    /\ rect \in [Contents -> EvalRects]
    /\ \A c \in Contents :
          (\A i \in 1..Len(elements) : elements[i].content # c)
              => rect[c] = Rect(0, 0)
    /\ isBound = hasBoundElements(elements)
    /\ subscribed = isBound
    /\ oldActive = Null
    /\ scrollTimeout = 1
    /\ timers = setTimeout({}, 1, OPTS.updateDelay, "inserted")
    /\ classes = {}
    /\ doc = Doc0
    /\ calls = << >>
    /\ lastOp = "inserted"
    /\ sinceScroll = 0 - 1
    /\ burst = 0
    /\ evals = 0
    /\ byScroll = 0
    /\ preempted = FALSE

NextEval == TimerFire

SpecEval == InitEval /\ [][NextEval]_vars

---------------------------------------------------------------------------
(* The directive in a page whose script hands the id of a bound content    *)
(* element to another element after the bind.                              *)

PageContents == {Doc0[id] : id \in PageIds}

Relabel(id, c) ==
    /\ doc[id] # c
    /\ doc' = [doc EXCEPT ![id] = c]
    /\ calls' = << >>
    /\ lastOp' = "relabel"
    /\ UNCHANGED << OPTS, closure, timers, subscribed, classes, rect, wHeight,
                    history >>

InitDom ==
    /\ OPTS \in ValidOpts({0}, Methods, {1}, {1})
    /\ Fresh
    /\ wHeight = 2
    /\ rect \in [Contents -> LifeRects]
    /\ \A id \in Ids \ PageIds : rect[Doc0[id]] = Rect(0, 1)

NextDom ==
    \/ Next
    \/ \E id \in PageIds, c \in PageContents : Relabel(id, c)

SpecDom == InitDom /\ [][NextDom]_vars

---------------------------------------------------------------------------
(* activeView(OPTS): the passed options, the defaults and validateOpts.    *)
(*                                                                         *)
(* A JavaScript value is [t, n, s]: t is what typeof yields ("absent" for  *)
(* a key the passed object does not have), n the value of a number in      *)
(* tenths, s the value of a string; NaN is the number with s = "NaN".      *)

Str(s) == [t |-> "string", n |-> 0, s |-> s]
Num(k) == [t |-> "number", n |-> k, s |-> ""]
NaN == [t |-> "number", n |-> 0, s |-> "NaN"]
Undefined == [t |-> "undefined", n |-> 0, s |-> ""]
Absent == [t |-> "absent", n |-> 0, s |-> ""]

OptionNames == << "className", "updateDelay", "method", "advance",
                  "largeEnough" >>

Defaults ==
    [className |-> Str("active-view-link"), updateDelay |-> Num(500),
     method |-> Str("partial"), advance |-> Num(2), largeEnough |-> Num(5)]

\* Object.assign(defaults, passed): every own key of passed overwrites.
ObjectAssign(target, source) ==
    [k \in DOMAIN target |-> IF source[k] = Absent THEN target[k] ELSE source[k]]

typeof(val) == val.t

\* parseFloat: the longest numeric prefix of String(val), NaN without one.
parseFloat(val) ==
    IF typeof(val) = "number" THEN val
    ELSE IF typeof(val) = "string" /\ val.s \in {"1", "1abc"} THEN Num(10)
    ELSE NaN

\* The conversion < and >= apply to an operand: the whole string must be a
\* number, the empty string is 0, undefined is NaN.
ToNumber(val) ==
    IF typeof(val) = "number" THEN val
    ELSE IF typeof(val) = "string" /\ val.s = "1" THEN Num(10)
    ELSE IF typeof(val) = "string" /\ val.s = "" THEN Num(0)
    ELSE NaN

\* String(val), the conversion string concatenation applies.
StringOf(val) ==
    IF typeof(val) = "string" THEN val.s
    ELSE IF typeof(val) = "undefined" THEN "undefined"
    ELSE IF val = NaN THEN "NaN"
    ELSE CASE val.n = 0 - 10 -> "-1"
           [] val.n = 0 -> "0"
           [] val.n = 2 -> "0.2"
           [] val.n = 5 -> "0.5"
           [] val.n = 10 -> "1"
           [] val.n = 20 -> "2"
           [] val.n = 500 -> "50"

LessThan(a, b) ==
    LET x == ToNumber(a)
        y == ToNumber(b)
    IN  x # NaN /\ y # NaN /\ x.n < y.n

GreaterEq(a, b) ==
    LET x == ToNumber(a)
        y == ToNumber(b)
    IN  x # NaN /\ y # NaN /\ x.n >= y.n

LessEq(a, b) == GreaterEq(b, a)

isString(val) == typeof(val) = "string"
isNumber(val) == parseFloat(val) # NaN
isBetween(v, a, b) ==
    IF GreaterEq(v, a) THEN (IF LessEq(v, b) THEN TRUE ELSE FALSE) ELSE FALSE

\* DETECTION_METHODS.hasOwnProperty(key)
hasDetectionMethod(key) == StringOf(key) \in Methods

PREFIX == "[v-active-view] Invalid option for "
INFIX == " Passed option: "
SUFFIX == "."

\* err is the text in two pieces, the quoted option name and the rest.
Err(name, needs, passed) == [err |-> << name, needs >>, invalidOpt |-> passed]
NoErr == [err |-> << >>, invalidOpt |-> Undefined]

validateOpts(opts) ==
    IF ~isString(opts.className)
    THEN Err("\"className\"", ". Needs to be a string.", opts.className)
    ELSE IF ~isNumber(opts.updateDelay) \/ LessThan(opts.updateDelay, Num(0))
    THEN Err("\"updateDelay\"",
             ". Needs to be a number greater than or equal to 0.",
             opts.updateDelay)
    ELSE IF ~isString(opts.method) \/ ~hasDetectionMethod(opts.method)
    THEN Err("\"className\"",
             ". Needs to be a string of value \"partial\", \"screenspace\" or \"complete\".",
             opts.method)
    ELSE IF ~isNumber(opts.advance) \/ ~isBetween(opts.advance, Num(0), Num(10))
    THEN Err("\"advance\"", ". Needs to be a number between 0 and 1.",
             opts.advance)
    ELSE IF \/ ~isNumber(opts.largeEnough)
            \/ ~isBetween(opts.largeEnough, Num(0), Num(10))
    THEN Err("\"largeEnough\"", ". Needs to be a number between 0 and 1.",
             opts.largeEnough)
    ELSE NoErr

\* PREFIX + err + INFIX + invalidOpt + SUFFIX, piece by piece
ErrorMessage(e) ==
    << PREFIX, e.err[1], e.err[2], INFIX, StringOf(e.invalidOpt), SUFFIX >>

\* The call activeView(OPTS): merge the defaults, set up the closure,
\* validate; an error is thrown before the directive is returned.
activeView ==
    /\ lastOp = "call"
    /\ OPTS' = ObjectAssign(Defaults, OPTS)
    /\ isBound' = FALSE
    /\ elements' = << >>
    /\ oldActive' = Null
    /\ scrollTimeout' = 0
    /\ LET e == validateOpts(OPTS')
       IN  IF e.err # << >>
           THEN /\ calls' = << Call("throw", ErrorMessage(e)) >>
                /\ lastOp' = "throw"
           ELSE /\ calls' = << >>
                /\ lastOp' = "activeView"
    /\ UNCHANGED << timers, subscribed, classes, rect, wHeight, doc, history >>

PassedOpts ==
    [className : {Absent, Undefined, Str("active-view-link"), Str(""), Num(10)},
     updateDelay : {Absent, Num(0), Num(0 - 10), NaN, Str("1abc"), Str("abc")},
     method : {Absent, Undefined, Str("screenspace"), Str("foo"), Num(10)},
     advance : {Absent, Num(0), Num(10), Num(20), Num(0 - 10), Str("1abc")},
     largeEnough : {Absent, Num(5), Num(10), Num(20), Str("abc")}]

InitOpts ==
    /\ OPTS \in PassedOpts
    /\ lastOp = "call"
    /\ isBound = FALSE
    /\ elements = << >>
    /\ oldActive = Null
    /\ scrollTimeout = 0
    /\ timers = {}
    /\ subscribed = FALSE
    /\ classes = {}
    /\ doc = Doc0
    /\ calls = << >>
    /\ sinceScroll = 0 - 1
    /\ burst = 0
    /\ evals = 0
    /\ byScroll = 0
    /\ preempted = FALSE
    /\ wHeight = 2
    /\ rect = [c \in Contents |-> Rect(0, 1)]

NextOpts == activeView

SpecOpts == InitOpts /\ [][NextOpts]_vars

---------------------------------------------------------------------------
(* What the claims speak of *)

Count(api) == Cardinality(CallsOf(api))
CountAfter(api) == Cardinality({i \in 1..Len(calls') : calls'[i][1] = api})

\* a first bind has just run: inserted added the listener in the last step
FirstBindRan == lastOp = "inserted" /\ Count("addEventListener") = 1

\* the callback has just run, for a timeout that `by` had set
CallbackRan(by) == lastOp = "timeout" /\ calls[1] = Call("callback", by)

\* the content elements the last callback measured, in order
Queried ==
    LET q == SelectSeq(calls, LAMBDA c : c[1] = "getBoundingClientRect")
    IN  [i \in 1..Len(q) |-> q[i][2]]

\* the policies as the specification words them, for one registered pair
Top(e)    == rect[e.content].top
Bottom(e) == rect[e.content].bottom
QualifiesPartial(e) ==
    Top(e) < wHeight /\ Bottom(e) * Scale >= OPTS.advance * wHeight
QualifiesComplete(e) == Top(e) >= 0 /\ Bottom(e) <= wHeight
Skipped(e) == Bottom(e) < 0 \/ Top(e) > wHeight
Max0(x) == IF x > 0 THEN x ELSE 0
\* visibleShare * viewportHeight
VisiblePixels(e) ==
    (Bottom(e) - Top(e)) - Max0(0 - Top(e)) - Max0(Bottom(e) - wHeight)
Qualifies(e) ==
    CASE OPTS.method = "partial"     -> QualifiesPartial(e)
      [] OPTS.method = "complete"    -> QualifiesComplete(e)
      [] OPTS.method = "screenspace" -> ~Skipped(e) /\ VisiblePixels(e) > 0

MinOf(S) == CHOOSE n \in S : \A m \in S : n <= m

---------------------------------------------------------------------------
(* C1: the scroll listener is held if and only if the registry is not      *)
(* empty: the bind into an empty registry adds it (once), a bind into a    *)
(* non-empty registry adds nothing, the unbind that empties the registry   *)
(* removes it, and a later bind adds it again.                             *)

C1_Held == (subscribed <=> Len(elements) > 0) /\ (isBound <=> subscribed)

C1_Step ==
    /\ (Len(elements) = 0 /\ Len(elements') > 0)
          => /\ ~subscribed /\ subscribed'
             /\ CountAfter("addEventListener") = 1
             /\ CountAfter("removeEventListener") = 0
    /\ (Len(elements) > 0 /\ Len(elements') > 0)
          => /\ subscribed /\ subscribed'
             /\ CountAfter("addEventListener") = 0
             /\ CountAfter("removeEventListener") = 0
    /\ (Len(elements) > 0 /\ Len(elements') = 0)
          => /\ subscribed /\ ~subscribed'
             /\ CountAfter("removeEventListener") = 1
             /\ CountAfter("addEventListener") = 0

C1_SubscribedIffRegistered == [](C1_Held) /\ [][C1_Step]_vars

\* a bind subscribed again: the listener is added although an earlier
\* evaluation (of an earlier subscription) had already set oldActive
C1_Resubscribed == FirstBindRan /\ subscribed /\ oldActive # Null

---------------------------------------------------------------------------
(* C2 as written: the bind into an unsubscribed controller performs the    *)
(* evaluation at once, so that right after it a qualifying first pair is   *)
(* the active link.                                                        *)

C2_EvaluatesAtOnce ==
    (FirstBindRan /\ Len(elements) = 1 /\ Qualifies(elements[1]))
        => oldActive = elements[1].link

(* C2, amended: the bind into an unsubscribed controller performs no       *)
(* evaluation itself; it leaves exactly one timeout pending, due           *)
(* updateDelay later, with the pair already stored.  When that timeout     *)
(* runs, without any scroll notification, the evaluation is made on the    *)
(* registry of that moment: a pair that is then the only registered one    *)
(* and qualifies becomes the active link.                                  *)

C2_SchedulesEvaluation ==
    /\ FirstBindRan =>
          /\ Len(elements) >= 1
          /\ Count("getBoundingClientRect") = 0
          /\ Count("classList.add") = 0
          /\ \E t \in timers :
                /\ timers = {t}
                /\ t.id = scrollTimeout
                /\ t.remaining = OPTS.updateDelay
                /\ t.by = "inserted"
    /\ (CallbackRan("inserted") /\ Len(elements) = 1 /\ Qualifies(elements[1]))
          => /\ oldActive = elements[1].link
             /\ classes = {oldActive}
             /\ Queried = << elements[1].content >>

\* the timeout of a first bind ran before any scroll notification and made
\* the pair the active link
C2_FirstPairActive ==
    /\ CallbackRan("inserted")
    /\ sinceScroll < 0
    /\ Len(elements) = 1
    /\ oldActive = elements[1].link
    /\ classes = {oldActive}

---------------------------------------------------------------------------
(* C3 as written: a burst of N scroll notifications, each less than        *)
(* updateDelay after the one before, produces exactly one evaluation, and  *)
(* it runs updateDelay after the last notification: none has run while     *)
(* less time has passed, one has run once more time has passed, and the    *)
(* callbacks of the burst never run a second one.                          *)

C3_OneEvaluationPerBurst ==
    burst >= 1 =>
        /\ sinceScroll < OPTS.updateDelay => evals = 0
        /\ sinceScroll > OPTS.updateDelay => evals >= 1
        /\ byScroll <= 1

(* C3, amended: ... exactly one evaluation, updateDelay after the last     *)
(* notification and none earlier, unless a first bind (the registry was    *)
(* emptied meanwhile) calls updateActive before that callback has run:     *)
(* then the callback of the burst is cancelled and never runs.             *)

C3_DebounceCollapses ==
    burst >= 1 =>
        /\ sinceScroll < OPTS.updateDelay => evals = 0
        /\ sinceScroll > OPTS.updateDelay => (byScroll = 1 \/ preempted)
        /\ byScroll <= 1
        /\ preempted => byScroll = 0

\* a burst of MaxBurst notifications has been answered by one evaluation
C3_BurstEvaluated ==
    /\ burst = MaxBurst
    /\ CallbackRan("scroll")
    /\ byScroll = 1 /\ evals = 1
    /\ sinceScroll = OPTS.updateDelay
    /\ OPTS.updateDelay > 0

---------------------------------------------------------------------------
(* C4: at most one evaluation callback is pending, and it is the one       *)
(* scrollTimeout names: every updateActive, from a scroll notification or  *)
(* from the first bind, clears the timeout set before it sets the next.    *)

C4_OnePending ==
    /\ Cardinality(timers) <= 1
    /\ \A t \in timers : t.id = scrollTimeout
    /\ (lastOp = "scroll" \/ FirstBindRan) =>
          \E i, j \in 1..Len(calls) :
              /\ i < j
              /\ calls[i][1] = "clearTimeout"
              /\ calls[j][1] = "setTimeout"

\* updateActive ran while a timeout was pending and one is pending now
C4_Rearmed ==
    /\ lastOp = "scroll"
    /\ burst >= 2
    /\ Cardinality(timers) = 1

---------------------------------------------------------------------------
(* C5: an evaluation that returns the link that is already the active one  *)
(* performs no classList call: the class is not removed from, and not      *)
(* added to, that link.                                                    *)

C5_NoMutationOnSameLink ==
    lastOp = "timeout" =>
        \A i, j \in 1..Len(calls) :
            ~ /\ calls[i][1] = "classList.remove"
              /\ calls[j][1] = "classList.add"
              /\ calls[i][2] = calls[j][2]

---------------------------------------------------------------------------
(* C6: oldActive is none or the link of a pair that is in the registry     *)
(* now; it never names the link of a pair that was unbound or replaced.    *)

C6_ActiveIsRegistered ==
    oldActive = Null \/ \E i \in 1..Len(elements) : elements[i].link = oldActive

---------------------------------------------------------------------------
(* The detection methods, checked under SpecEval: the callback ran on the  *)
(* registry and rectangles of the state, with no link active before.       *)

Registered == 1..Len(elements)

\* the number of the bind that registered the pair of link l
BindNo(l) == CHOOSE n \in 1..Len(LinkSeq) : LinkSeq[n] = l

\* the pairs the policy of OPTS.method accepts
Qualifying == {i \in Registered : Qualifies(elements[i])}

\* the link of the first pair of S in registry order, none for no pair
FirstLinkOf(S) == IF S = {} THEN Null ELSE elements[MinOf(S)].link

\* the content elements of the first n pairs in registry order
ContentsUpTo(n) == [i \in 1..n |-> elements[i].content]

---------------------------------------------------------------------------
(* C7: for "partial" and "complete", whatever the identifiers and the      *)
(* order of the binds, when two or more registered pairs qualify the link  *)
(* returned is that of the qualifying pair that was registered first.      *)

C7_FirstRegisteredWins ==
    (/\ lastOp = "timeout"
     /\ OPTS.method \in {"partial", "complete"}
     /\ Cardinality(Qualifying) >= 2)
        => \A i \in Qualifying :
              BindNo(oldActive) <= BindNo(elements[i].link)

---------------------------------------------------------------------------
(* C8: "partial" returns the link of the first pair in registry order with *)
(* top < viewportHeight and bottom >= advance * viewportHeight, and none   *)
(* exactly when no registered pair satisfies that.                         *)

C8_PartialFirstQualifying ==
    LET Q == {i \in Registered : QualifiesPartial(elements[i])}
    IN  OPTS.method = "partial" =>
            /\ partiallyVisible(wHeight).link = FirstLinkOf(Q)
            /\ (partiallyVisible(wHeight).link = Null) <=> (Q = {})
            /\ lastOp = "timeout" =>
                  /\ oldActive = FirstLinkOf(Q)
                  /\ classes = {oldActive} \ {Null}

\* the callback passed over a pair that does not qualify and chose the next
C8_SecondPairChosen ==
    /\ OPTS.method = "partial"
    /\ lastOp = "timeout"
    /\ Len(elements) = 2
    /\ ~QualifiesPartial(elements[1])
    /\ oldActive = elements[2].link

---------------------------------------------------------------------------
(* C9: "complete" returns the link of the first pair in registry order     *)
(* with top >= 0 and bottom <= viewportHeight, none exactly when no        *)
(* registered pair lies fully within the viewport, and never a pair with   *)
(* top < 0.                                                                *)

C9_CompleteFirstQualifying ==
    LET Q == {i \in Registered : QualifiesComplete(elements[i])}
    IN  OPTS.method = "complete" =>
            /\ completelyVisible(wHeight).link = FirstLinkOf(Q)
            /\ (completelyVisible(wHeight).link = Null) <=> (Q = {})
            /\ lastOp = "timeout" =>
                  /\ oldActive = FirstLinkOf(Q)
                  /\ \A i \in Registered :
                        Top(elements[i]) < 0 => oldActive # elements[i].link

\* the callback passed over a pair that starts above the viewport and chose
\* the next, which lies within it
C9_SecondPairChosen ==
    /\ OPTS.method = "complete"
    /\ lastOp = "timeout"
    /\ Len(elements) = 2
    /\ Top(elements[1]) < 0
    /\ oldActive = elements[2].link

---------------------------------------------------------------------------
(* C10 as written: "screenspace" stops at the first pair in registry order *)
(* whose visibleShare reaches or exceeds largeEnough: it returns that      *)
(* pair's link and measures no later pair.                                 *)

C10_StopsAtLargeEnough ==
    LET S == {i \in Registered :
                 /\ ~Skipped(elements[i])
                 /\ VisiblePixels(elements[i]) * Scale
                        >= OPTS.largeEnough * wHeight}
    IN  (OPTS.method = "screenspace" /\ lastOp = "timeout" /\ S # {}) =>
            /\ oldActive = FirstLinkOf(S)
            /\ Queried = ContentsUpTo(MinOf(S))

(* C10, amended: ... whose visibleShare is strictly positive and reaches   *)
(* or exceeds largeEnough ... (with largeEnough = 0 a pair of share 0      *)
(* does not stop the scan).                                                *)

C10_StopsAtPositiveLargeEnough ==
    LET S == {i \in Registered :
                 /\ ~Skipped(elements[i])
                 /\ VisiblePixels(elements[i]) > 0
                 /\ VisiblePixels(elements[i]) * Scale
                        >= OPTS.largeEnough * wHeight}
    IN  (OPTS.method = "screenspace" /\ S # {}) =>
            /\ screenspace(wHeight).link = FirstLinkOf(S)
            /\ screenspace(wHeight).queried = ContentsUpTo(MinOf(S))
            /\ lastOp = "timeout" =>
                  /\ oldActive = FirstLinkOf(S)
                  /\ Queried = ContentsUpTo(MinOf(S))

\* the scan stopped at the first of two pairs and never measured the second
C10_StoppedEarly ==
    /\ OPTS.method = "screenspace"
    /\ lastOp = "timeout"
    /\ Len(elements) = 2
    /\ Queried = << elements[1].content >>
    /\ oldActive = elements[1].link
    /\ OPTS.largeEnough > 0

---------------------------------------------------------------------------
(* "screenspace" on the shares of the registered pairs *)

\* the pairs in view with a strictly positive visibleShare
Visible == {i \in Registered :
               ~Skipped(elements[i]) /\ VisiblePixels(elements[i]) > 0}

\* the visible pairs whose visibleShare reaches or exceeds largeEnough
LargeEnough == {i \in Visible :
                   VisiblePixels(elements[i]) * Scale
                       >= OPTS.largeEnough * wHeight}

\* the visible pairs of the maximum visibleShare
Best == {i \in Visible :
            \A j \in Visible :
                VisiblePixels(elements[j]) <= VisiblePixels(elements[i])}

\* some registered pair's visibleShare reaches or exceeds largeEnough
SomeShareReaches ==
    \E i \in Registered :
        VisiblePixels(elements[i]) * Scale >= OPTS.largeEnough * wHeight

---------------------------------------------------------------------------
(* C11: when no registered pair's visibleShare reaches largeEnough,        *)
(* "screenspace" returns the link of the earliest-registered pair among    *)
(* those of the maximum visibleShare, provided that maximum is strictly    *)
(* positive; it returns none when no pair has a positive share, and never  *)
(* a pair of share zero or less or one entirely above or below the window. *)

C11_EarliestRegisteredOfBest ==
    (OPTS.method = "screenspace" /\ lastOp = "timeout" /\ ~SomeShareReaches)
        => IF Visible = {} THEN oldActive = Null
           ELSE \E i \in Best :
                   /\ oldActive = elements[i].link
                   /\ \A j \in Best :
                         BindNo(elements[i].link) <= BindNo(elements[j].link)

---------------------------------------------------------------------------
(* C12 as written: the link "screenspace" returns belongs to a pair whose  *)
(* visibleShare is the maximum over all registered visible pairs.          *)

---------------------------------------------------------------------------
(* What the option table asks of each option *)

IsNumberValue(val) == val.t = "number" /\ val # NaN

MeetsConstraint(name, val) ==
    CASE name = "className" -> val.t = "string" /\ val.s # ""
      [] name = "updateDelay" -> IsNumberValue(val) /\ val.n >= 0
      [] name = "method" -> val.t = "string" /\ val.s \in Methods
      [] name = "advance" -> IsNumberValue(val) /\ val.n >= 0 /\ val.n <= 10
      [] name = "largeEnough" -> IsNumberValue(val) /\ val.n >= 0 /\ val.n <= 10

Violated(opts) ==
    {i \in 1..Len(OptionNames) : ~MeetsConstraint(OptionNames[i], opts[OptionNames[i]])}

Constructed == lastOp \in {"throw", "activeView"}
Thrown == lastOp = "throw"
Message == calls[1][2]
Quoted(name) ==
    CASE name = "className" -> "\"className\""
      [] name = "updateDelay" -> "\"updateDelay\""
      [] name = "method" -> "\"method\""
      [] name = "advance" -> "\"advance\""
      [] name = "largeEnough" -> "\"largeEnough\""

---------------------------------------------------------------------------
(* C13: for every combination of option values (defaults for the omitted   *)
(* ones), activeView(OPTS) throws if and only if at least one option       *)
(* violates its constraint: className a non-empty string, updateDelay a    *)
(* number >= 0, method one of the three, advance and largeEnough numbers   *)
(* in [0,1]; a valid configuration returns the directive.                  *)

C13_FailsIffInvalid == Constructed => (Thrown <=> Violated(OPTS) # {})

---------------------------------------------------------------------------
(* C15: when construction fails, the error names the first option in       *)
(* check order whose value violates its constraint, and carries the value  *)
(* passed for it.                                                          *)

C15_NamesOffendingOption ==
    (Thrown /\ Violated(OPTS) # {})
        => LET name == OptionNames[MinOf(Violated(OPTS))]
           IN  /\ Message[2] = Quoted(name)
               /\ Message[5] = StringOf(OPTS[name])

---------------------------------------------------------------------------
(* C14: unbind of an identifier that is not in the registry is a silent    *)
(* no-op: the registry, the active link, the class of every link, the      *)
(* pending timeout and the subscription are as before; so a second unbind  *)
(* of the same identifier changes nothing the first one left.              *)

UnboundId == calls[1][2]

C14_Step ==
    (lastOp' = "unbind" /\ ~HasProperty(elements, UnboundId'))
        => UNCHANGED << elements, oldActive, classes, timers, scrollTimeout,
                        subscribed, isBound >>

C14_UnknownUnbindIsNoOp == [][C14_Step]_vars

\* "b" was never bound; it is unbound while a pair is registered, a link
\* is active and a timeout is pending.
C14_NeverBoundUnbound ==
    /\ lastOp = "unbind" /\ UnboundId = "b"
    /\ Len(elements) > 0 /\ subscribed
    /\ oldActive # Null /\ classes = {oldActive}
    /\ timers # {}

---------------------------------------------------------------------------
(* C16: at most one link carries the class, and only the active link       *)
(* does; an evaluation that returns a link removes the class from the      *)
(* previous active link (if any), adds it to the returned link and makes   *)
(* that link the active one, all in the one step of the callback.          *)

C16_OnlyActiveLinkDecorated ==
    /\ Cardinality(classes) <= 1
    /\ \A l \in classes : l = oldActive
    /\ \A i \in CallsOf("classList.add") :
          /\ lastOp = "timeout"
          /\ classes = {calls[i][2]}
          /\ oldActive = calls[i][2]
    /\ \A i \in CallsOf("classList.remove") :
          \E j \in CallsOf("classList.add") : j = i + 1

\* the callback moved the class from one link to another
C16_ClassMoved ==
    \E i, j \in 1..Len(calls) :
        /\ calls[i][1] = "classList.remove" /\ calls[j][1] = "classList.add"
        /\ calls[i][2] # calls[j][2]
        /\ classes = {calls[j][2]}

---------------------------------------------------------------------------
(* C18: an evaluation whose method returns no link (no pair qualifies, or  *)
(* the registry is empty because the timeout runs after the last unbind)   *)
(* changes nothing: the active link stays and keeps the class.  A link     *)
(* loses the class only in an evaluation that returns a link.              *)

C18_Step ==
    /\ (lastOp' = "timeout" /\ UPDATE_METHOD(wHeight).link = Null)
          => /\ oldActive' = oldActive
             /\ classes' = classes
             /\ \A i \in 1..Len(calls') :
                   calls'[i][1] \notin {"classList.remove", "classList.add"}
    /\ \A l \in classes \ classes' :
          /\ lastOp' = "timeout"
          /\ UPDATE_METHOD(wHeight).link # Null
          /\ oldActive' = UPDATE_METHOD(wHeight).link
          /\ oldActive' # l

C18_NoneChangesNothing == [][C18_Step]_vars

\* the timeout ran after the last unbind, with a link active
C18_EvaluatedEmptyRegistry ==
    /\ lastOp = "timeout" /\ Len(elements) = 0
    /\ Count("getBoundingClientRect") = 0 /\ Count("classList.add") = 0
    /\ oldActive # Null /\ classes = {oldActive}

---------------------------------------------------------------------------
(* C17: the content element of a pair is looked up once, by the bind, and  *)
(* stored: the bind makes one getElementById call and stores the element   *)
(* the id names at that moment; every evaluation measures the stored       *)
(* elements, so the link it returns is that of a pair whose stored element *)
(* qualifies; no step makes another lookup, and only bind and unbind       *)
(* change the registry.                                                    *)

C17_Step ==
    /\ lastOp' = "inserted"
          => /\ CountAfter("getElementById") = 1
             /\ \E i \in 1..Len(elements') :
                   /\ Call("getElementById", elements'[i].key) \in
                          {calls'[k] : k \in 1..Len(calls')}
                   /\ elements'[i].content = doc[elements'[i].key]
                   /\ \A j \in 1..Len(elements') : j # i =>
                         \E k \in 1..Len(elements) : elements[k] = elements'[j]
    /\ lastOp' # "inserted" => CountAfter("getElementById") = 0
    /\ lastOp' \notin {"inserted", "unbind"} => elements' = elements
    /\ lastOp' = "timeout"
          => /\ \A i \in 1..Len(calls') :
                   calls'[i][1] = "getBoundingClientRect"
                      => \E k \in Registered : elements[k].content = calls'[i][2]
             /\ Qualifying = {} => oldActive' = oldActive
             /\ Qualifying # {}
                   => \E k \in Qualifying : oldActive' = elements[k].link

C17_ResolvedOnceAtBind == [][C17_Step]_vars

\* the evaluation chose a pair whose id names another element by now, one
\* that does not qualify
C17_StoredHandleMeasured ==
    /\ lastOp = "timeout" /\ Count("classList.add") = 1
    /\ \E i \in Registered :
          /\ elements[i].link = oldActive
          /\ doc[elements[i].key] # elements[i].content
          /\ Qualifies(elements[i])
          /\ ~Qualifies([elements[i] EXCEPT !.content = doc[elements[i].key]])
    /\ \A j \in Registered : elements[j].link = oldActive

=============================================================================
